---- MODULE Spec2Model ----
(***************************************************************************)
(* Model of the SQLocal client (src/src/client.ts): the controller side of *)
(* the request/response correlation protocol with the database worker.     *)
(*                                                                         *)
(* The controller context is single threaded.  One action of the model is  *)
(* one run-to-completion piece of controller code: the synchronous part of *)
(* a public operation up to its first await, the dispatch of one message   *)
(* event to processMessageEvent, or the continuation of an await.  The     *)
(* continuation of `await createQuery(...)` is a microtask: it runs after  *)
(* the message handler that settled the awaitable returns and before any   *)
(* other task, so no task-level action is enabled while the microtask      *)
(* queue is not empty.                                                     *)
(*                                                                         *)
(* The worker, the OPFS file system, sqlTag and convertRowsToObjects are   *)
(* external: the worker is the environment that chooses which message      *)
(* event is dispatched next.                                               *)
(***************************************************************************)
EXTENDS Integers, Sequences, FiniteSets, TLC

\* ------------------------------------------------------------------ bounds
MaxCalls == 2
MaxStatements == 1
MaxResults == 2

\* ------------------------------------------------------------ value model
\* JavaScript values are tagged records, so that any two of them compare.
Undefined == [kind |-> "undefined"]
Arr(items) == [kind |-> "array", items |-> items]
JsError(text) == [kind |-> "Error", message |-> text]
TypeError == [kind |-> "TypeError", message |-> "cannot read properties of undefined"]
WorkerError(id) == [kind |-> "workerError", id |-> id]
DomException == [kind |-> "DOMException", message |-> "NotFoundError"]
FileOf(name) == [kind |-> "File", name |-> name, type |-> "application/x-sqlite3"]
Info(id) == [kind |-> "DatabaseInfo", id |-> id]

DestroyedError == JsError("This SQLocal client has been destroyed.")
InfoError == JsError("The database failed to return valid information.")
ParseError == JsError("Failed to parse the database file name.")

\* the worker's payloads
WorkerErrors == {WorkerError("e1"), WorkerError("e2")}
Infos == {Info("i1"), Info("i2")}
FuncNames == {"f", "g"}
CallbackArgs == {Undefined, Arr(<<"x">>)}
ResultSet(i) == [rows |-> <<<<i>>>>, columns |-> <<i>>]
EmptyResult == [rows |-> <<>>, columns |-> <<>>]
\* a data payload of m result sets: the i-th one is ResultSet(i)
DataOf(m) == [i \in 1..m |-> ResultSet(i)]

\* the databasePath given to the constructor, as a string of characters
Paths == {<<"d", "/", "f", "\\">>}

\* queryKey values: nanoid() never returns the empty string
NoKey == 0
StrayKey == -1

PublicOps == {"sql", "transaction", "batch", "createCallbackFunction",
              "createScalarFunction", "getDatabaseInfo", "getDatabaseFile",
              "overwriteDatabaseFile", "destroy"}

\* ------------------------------------------------------------------- state
VARIABLES
    databasePath,       \* this.databasePath
    isWorkerDestroyed,  \* this.isWorkerDestroyed
    listening,          \* processMessageEvent is a 'message' listener of the worker
    terminated,         \* worker.terminate() has been called
    queriesInProgress,  \* this.queriesInProgress: queryKey -> the call whose
                        \* [resolve, reject] pair is stored under the key
    userCallbacks,      \* this.userCallbacks: name -> func (named by its call)
    proxy,              \* this.proxy: _sqlocal_func_<name> -> func
    posted,             \* the messages given to worker.postMessage, in order
    calls,              \* the calls of public operations made so far
    microtasks,         \* calls whose await continuation is queued
    replied,            \* keys the worker has answered, in order of first answer
    received,           \* the message the last step handed to processMessageEvent
    thrown,             \* the error the last step let escape the message listener
    invoked             \* the user callback the last step invoked, with its arguments

vars == <<databasePath, isWorkerDestroyed, listening, terminated, queriesInProgress,
          userCallbacks, proxy, posted, calls, microtasks, replied, received, thrown,
          invoked>>

EmptyMap == [k \in {} |-> 0]
MapSet(m, k, v) == [x \in (DOMAIN m) \cup {k} |-> IF x = k THEN v ELSE m[x]]
\* a delete that leaves the entry in the map
MapDelete_keep(m, k) == m

MapDelete(m, k) == [x \in (DOMAIN m) \ {k} |-> m[x]]

Pending == [state |-> "pending", value |-> Undefined]
Resolved(v) == [state |-> "resolved", value |-> v]
Rejected(e) == [state |-> "rejected", value |-> e]
NotCreated == [state |-> "none", value |-> Undefined]

\* a step that is not a message event throws nothing into the listener's caller
\* and invokes no user callback
Quiet == thrown' = Undefined /\ invoked' = Undefined

\* what `received` holds after a step that dispatched no message to the listener
NoMessage == [type |-> "none", key |-> NoKey, error |-> Undefined,
              name |-> "", args |-> Undefined]

NoDispatch == Quiet /\ received' = NoMessage

CallIds == 1..Len(calls)

Put(seq, i, v) == IF i = Len(seq) + 1 THEN Append(seq, v) ELSE [seq EXCEPT ![i] = v]

\* The record of one call of a public operation: where it stands (pc), the key
\* createQuery stamped on its request, the awaitable createQuery returned to it
\* and the promise the operation returned to its caller (result).  afterDestroy
\* remembers whether the client was already destroyed when the call was made.
NewCall(op, arg) == [op |-> op, arg |-> arg, pc |-> "start", key |-> NoKey,
                     awaitable |-> NotCreated, result |-> Pending,
                     afterDestroy |-> isWorkerDestroyed]

\* the request envelopes, before createQuery stamps them
Request(type, detail) == [type |-> type, queryKey |-> NoKey, detail |-> detail]
ConfigMessage(path) == Request("config", [key |-> "databasePath", value |-> path])

\* ------------------------------------------------------------- constructor
Init ==
    /\ databasePath \in Paths
    /\ isWorkerDestroyed = FALSE
    /\ listening = TRUE
    /\ terminated = FALSE
    /\ queriesInProgress = EmptyMap
    /\ userCallbacks = EmptyMap
    /\ proxy = EmptyMap
    /\ posted = <<ConfigMessage(databasePath)>>
    /\ calls = <<>>
    /\ microtasks = <<>>
    /\ replied = <<>>
    /\ received = NoMessage
    /\ thrown = Undefined
    /\ invoked = Undefined

\* ------------------------------------------------------------- createQuery
\* nanoid(): a key that was never minted before.  Every posted message but the
\* constructor's config message carries one.
nanoid == Len(posted)

MintedKeys == 1..(Len(posted) - 1)

\* a createQuery that posts the request and leaves the registration of the
\* entry to a later task
createQuery_postOnly(c, call, message) ==
    IF isWorkerDestroyed = TRUE
    THEN /\ calls' = Put(calls, c, [call EXCEPT !.pc = "done",
                                                !.result = Rejected(DestroyedError)])
         /\ UNCHANGED <<posted, queriesInProgress>>
    ELSE LET queryKey == nanoid IN
         /\ posted' = Append(posted, [message EXCEPT !.queryKey = queryKey])
         /\ UNCHANGED queriesInProgress
         /\ calls' = Put(calls, c, [call EXCEPT !.pc = "awaiting", !.key = queryKey,
                                                !.awaitable = Pending])

\* createQuery without the guard on isWorkerDestroyed
createQuery_unguarded(c, call, message) ==
    LET queryKey == nanoid IN
    /\ posted' = Append(posted, [message EXCEPT !.queryKey = queryKey])
    /\ queriesInProgress' = MapSet(queriesInProgress, queryKey, c)
    /\ calls' = Put(calls, c, [call EXCEPT !.pc = "awaiting", !.key = queryKey,
                                           !.awaitable = Pending])

\* createQuery called by call c (whose record is `call`) with `message`.  A throw
\* of createQuery rejects the async operation that called it.
createQuery(c, call, message) ==
    IF isWorkerDestroyed = TRUE
    THEN /\ calls' = Put(calls, c, [call EXCEPT !.pc = "done",
                                                !.result = Rejected(DestroyedError)])
         /\ UNCHANGED <<posted, queriesInProgress>>
    ELSE LET queryKey == nanoid IN
         /\ posted' = Append(posted, [message EXCEPT !.queryKey = queryKey])
         /\ queriesInProgress' = MapSet(queriesInProgress, queryKey, c)
         /\ calls' = Put(calls, c, [call EXCEPT !.pc = "awaiting", !.key = queryKey,
                                                !.awaitable = Pending])

\* a task of the controller context may start: the microtask queue is drained
TaskMayRun == microtasks = <<>>

MayCall == TaskMayRun /\ Len(calls) < MaxCalls

Statements(n) == [i \in 1..n |-> "stmt"]

\* ------------------------------------------------- the public operations
sql ==
    /\ MayCall
    /\ createQuery(Len(calls) + 1, NewCall("sql", Undefined),
                   Request("query", [method |-> "all"]))
    /\ NoDispatch
    /\ UNCHANGED <<databasePath, isWorkerDestroyed, listening, terminated, userCallbacks,
                   proxy, microtasks, replied>>

transaction(statements) ==
    /\ MayCall
    /\ createQuery(Len(calls) + 1, NewCall("transaction", Arr(statements)),
                   Request("batch", Arr(statements)))
    /\ NoDispatch
    /\ UNCHANGED <<databasePath, isWorkerDestroyed, listening, terminated, userCallbacks,
                   proxy, microtasks, replied>>

batch(statements) ==
    /\ MayCall
    /\ createQuery(Len(calls) + 1, NewCall("batch", Arr(statements)),
                   Request("batch", Arr(statements)))
    /\ NoDispatch
    /\ UNCHANGED <<databasePath, isWorkerDestroyed, listening, terminated, userCallbacks,
                   proxy, microtasks, replied>>

\* a createCallbackFunction that records the handler without awaiting the reply
createCallbackFunction_noAwait(funcName) ==
    /\ MayCall
    /\ createQuery(Len(calls) + 1, NewCall("createCallbackFunction", [name |-> funcName]),
                   Request("function", [functionName |-> funcName,
                                        functionType |-> "callback"]))
    /\ userCallbacks' = IF isWorkerDestroyed THEN userCallbacks
                        ELSE MapSet(userCallbacks, funcName, Len(calls) + 1)
    /\ NoDispatch
    /\ UNCHANGED <<databasePath, isWorkerDestroyed, listening, terminated,
                   proxy, microtasks, replied>>

\* a createCallbackFunction that records the handler all the same when
\* createQuery refuses the request
createCallbackFunction_recordAlways(funcName) ==
    /\ MayCall
    /\ createQuery(Len(calls) + 1, NewCall("createCallbackFunction", [name |-> funcName]),
                   Request("function", [functionName |-> funcName,
                                        functionType |-> "callback"]))
    /\ userCallbacks' = IF isWorkerDestroyed
                        THEN MapSet(userCallbacks, funcName, Len(calls) + 1)
                        ELSE userCallbacks
    /\ NoDispatch
    /\ UNCHANGED <<databasePath, isWorkerDestroyed, listening, terminated,
                   proxy, microtasks, replied>>

createCallbackFunction(funcName) ==
    /\ MayCall
    /\ createQuery(Len(calls) + 1, NewCall("createCallbackFunction", [name |-> funcName]),
                   Request("function", [functionName |-> funcName,
                                        functionType |-> "callback"]))
    /\ NoDispatch
    /\ UNCHANGED <<databasePath, isWorkerDestroyed, listening, terminated, userCallbacks,
                   proxy, microtasks, replied>>

createScalarFunction(funcName) ==
    /\ MayCall
    /\ createQuery(Len(calls) + 1, NewCall("createScalarFunction", [name |-> funcName]),
                   Request("function", [functionName |-> funcName,
                                        functionType |-> "scalar"]))
    /\ NoDispatch
    /\ UNCHANGED <<databasePath, isWorkerDestroyed, listening, terminated, userCallbacks,
                   proxy, microtasks, replied>>

getDatabaseInfo ==
    /\ MayCall
    /\ createQuery(Len(calls) + 1, NewCall("getDatabaseInfo", Undefined),
                   Request("getinfo", Undefined))
    /\ NoDispatch
    /\ UNCHANGED <<databasePath, isWorkerDestroyed, listening, terminated, userCallbacks,
                   proxy, microtasks, replied>>

\* a destroy that sets the lifecycle flag before it awaits the acknowledgement
destroy_flagFirst ==
    /\ MayCall
    /\ createQuery(Len(calls) + 1, NewCall("destroy", Undefined),
                   Request("destroy", Undefined))
    /\ isWorkerDestroyed' = TRUE
    /\ NoDispatch
    /\ UNCHANGED <<databasePath, listening, terminated, userCallbacks,
                   proxy, microtasks, replied>>

destroy ==
    /\ MayCall
    /\ createQuery(Len(calls) + 1, NewCall("destroy", Undefined),
                   Request("destroy", Undefined))
    /\ NoDispatch
    /\ UNCHANGED <<databasePath, isWorkerDestroyed, listening, terminated, userCallbacks,
                   proxy, microtasks, replied>>

\* overwriteDatabaseFile: a Blob (or File) is first read with arrayBuffer(), which
\* is awaited; an ArrayBuffer or Uint8Array is dispatched at once.
ImportRequest == Request("import", [database |-> "bytes"])

overwriteDatabaseFile(isBlob) ==
    /\ MayCall
    /\ IF isBlob
       THEN /\ calls' = Append(calls, [NewCall("overwriteDatabaseFile", [blob |-> isBlob])
                                          EXCEPT !.pc = "reading"])
            /\ UNCHANGED <<posted, queriesInProgress>>
       ELSE createQuery(Len(calls) + 1, NewCall("overwriteDatabaseFile", [blob |-> isBlob]),
                        ImportRequest)
    /\ NoDispatch
    /\ UNCHANGED <<databasePath, isWorkerDestroyed, listening, terminated, userCallbacks,
                   proxy, microtasks, replied>>

\* databaseFile.arrayBuffer() has resolved: the import request is dispatched
arrayBufferRead(c) ==
    /\ TaskMayRun
    /\ c \in CallIds
    /\ calls[c].pc = "reading"
    /\ createQuery(c, calls[c], ImportRequest)
    /\ NoDispatch
    /\ UNCHANGED <<databasePath, isWorkerDestroyed, listening, terminated, userCallbacks,
                   proxy, microtasks, replied>>

\* getDatabaseFile: databasePath.split(/[\\/]/).filter((part) => part !== '')
Separators == {"/", "\\"}

RECURSIVE split(_, _, _)
split(s, cur, acc) ==
    IF s = <<>> THEN Append(acc, cur)
    ELSE IF Head(s) \in Separators
         THEN split(Tail(s), <<>>, Append(acc, cur))
         ELSE split(Tail(s), Append(cur, Head(s)), acc)

pathParts(path) == SelectSeq(split(path, <<>>, <<>>), LAMBDA part : part # <<>>)

\* path.pop(): the last part, undefined for an empty array
fileNameOf(path) ==
    LET parts == pathParts(path) IN
    IF parts = <<>> THEN Undefined ELSE Arr(parts[Len(parts)])

getDatabaseFile ==
    /\ MayCall
    /\ LET fileName == fileNameOf(databasePath)
           call == NewCall("getDatabaseFile", Undefined)
       IN IF fileName = Undefined
          THEN calls' = Append(calls, [call EXCEPT !.pc = "done",
                                                   !.result = Rejected(ParseError)])
          ELSE calls' = Append(calls, [call EXCEPT !.pc = "opfs"])
    /\ NoDispatch
    /\ UNCHANGED <<databasePath, isWorkerDestroyed, listening, terminated, queriesInProgress,
                   userCallbacks, proxy, posted, microtasks, replied>>

\* the origin private file system answers: the file, or a NotFoundError
opfsSettles(c, found) ==
    /\ TaskMayRun
    /\ c \in CallIds
    /\ calls[c].pc = "opfs"
    /\ calls' = [calls EXCEPT ![c].pc = "done",
                              ![c].result =
                                  IF found THEN Resolved(FileOf(fileNameOf(databasePath)))
                                  ELSE Rejected(DomException)]
    /\ NoDispatch
    /\ UNCHANGED <<databasePath, isWorkerDestroyed, listening, terminated, queriesInProgress,
                   userCallbacks, proxy, posted, microtasks, replied>>

\* ---------------------------------------------------- processMessageEvent
ReplyTypes == {"success", "data", "error", "info"}

Success(k) == [type |-> "success", queryKey |-> k]
Data(k, m) == [type |-> "data", queryKey |-> k, data |-> DataOf(m)]
Error(k, e) == [type |-> "error", queryKey |-> k, error |-> e]
InfoReply(k, i) == [type |-> "info", queryKey |-> k, info |-> i]
Callback(name, args) == [type |-> "callback", name |-> name, args |-> args]

\* the keys a reply of the worker can carry: one the client minted, one it never
\* minted, or none
ReplyKeys == MintedKeys \cup {NoKey, StrayKey}

\* message.queryKey && queries.has(message.queryKey)
hasEntry(message) ==
    message.queryKey # NoKey /\ message.queryKey \in DOMAIN queriesInProgress

\* a client that takes replies to arrive in the order of the requests
entryFor_oldest(message) ==
    CHOOSE k \in DOMAIN queriesInProgress : \A j \in DOMAIN queriesInProgress : k <= j

\* queries.get(message.queryKey): the key whose entry is settled and deleted
entryFor(message) == message.queryKey

\* a client that wraps the worker's error in an error of its own
settlement_wrapped(message) ==
    IF message.type = "error" THEN Rejected(JsError("The worker reported an error."))
    ELSE Resolved(message)

\* the continuation called for a matched reply, and its argument
settlement(message) ==
    IF message.type = "error" THEN Rejected(message.error) ELSE Resolved(message)

\* a client that drops every reply that matches no entry
strayThrow_silent(message) == Undefined

\* what processMessageEvent throws for a reply that matches no entry
strayThrow(message) ==
    IF message.type = "error" THEN message.error ELSE Undefined

\* a handler called with message.args as it is, without the default for a
\* notification that carries no arguments
invocation_noDefault(message) ==
    IF message.name \in DOMAIN userCallbacks
    THEN [func |-> userCallbacks[message.name], args |-> message.args]
    ELSE Undefined

\* userCallback(...(message.args ?? []))
invocation(message) ==
    IF message.name \in DOMAIN userCallbacks
    THEN [func |-> userCallbacks[message.name],
          args |-> IF message.args = Undefined THEN Arr(<<>>) ELSE message.args]
    ELSE Undefined

\* a processMessageEvent that deletes the entry only on the resolve path
processMessageEvent_leakOnError(message) ==
    IF message.type \in ReplyTypes
    THEN IF hasEntry(message)
         THEN LET c == queriesInProgress[entryFor(message)] IN
              /\ calls' = [calls EXCEPT ![c].awaitable = settlement(message)]
              /\ microtasks' = Append(microtasks, c)
              /\ queriesInProgress' = IF message.type = "error" THEN queriesInProgress
                                      ELSE MapDelete(queriesInProgress, entryFor(message))
              /\ Quiet
         ELSE /\ thrown' = strayThrow(message)
              /\ invoked' = Undefined
              /\ UNCHANGED <<calls, microtasks, queriesInProgress>>
    ELSE /\ invoked' = invocation(message)
         /\ thrown' = Undefined
         /\ UNCHANGED <<calls, microtasks, queriesInProgress>>

processMessageEvent(message) ==
    IF message.type \in ReplyTypes
    THEN IF hasEntry(message)
         THEN LET c == queriesInProgress[entryFor(message)] IN
              /\ calls' = [calls EXCEPT ![c].awaitable = settlement(message)]
              /\ microtasks' = Append(microtasks, c)
              /\ queriesInProgress' = MapDelete(queriesInProgress, entryFor(message))
              /\ Quiet
         ELSE /\ thrown' = strayThrow(message)
              /\ invoked' = Undefined
              /\ UNCHANGED <<calls, microtasks, queriesInProgress>>
    ELSE /\ invoked' = invocation(message)
         /\ thrown' = Undefined
         /\ UNCHANGED <<calls, microtasks, queriesInProgress>>

\* The record of a message handed to the listener: its type, its queryKey if
\* an entry was pending under that key when it arrived (no key otherwise), the
\* error value it carries, and the name and the arguments of a callback
\* notification.
Heard(message) ==
    [type |-> message.type,
     key |-> IF /\ message.type \in ReplyTypes
                /\ message.queryKey \in DOMAIN queriesInProgress
             THEN message.queryKey ELSE NoKey,
     error |-> IF message.type = "error" THEN message.error ELSE Undefined,
     name |-> IF message.type = "callback" THEN message.name ELSE "",
     args |-> IF message.type = "callback" THEN message.args ELSE Undefined]

\* a listener that destroy does not detach
MessageEvent_attached(message) ==
    /\ TaskMayRun
    /\ processMessageEvent(message)
    /\ received' = Heard(message)
    /\ replied' = IF /\ message.type \in ReplyTypes
                     /\ message.queryKey \in MintedKeys
                     /\ \A i \in 1..Len(replied) : replied[i] # message.queryKey
                  THEN Append(replied, message.queryKey)
                  ELSE replied
    /\ UNCHANGED <<databasePath, isWorkerDestroyed, listening, terminated, userCallbacks,
                   proxy, posted>>

\* a listener that marks the client destroyed when the worker reports an error
\* that belongs to no request
MessageEvent_marking(message) ==
    /\ TaskMayRun
    /\ IF listening
       THEN /\ processMessageEvent(message)
            /\ received' = Heard(message)
       ELSE /\ NoDispatch
            /\ UNCHANGED <<calls, microtasks, queriesInProgress>>
    /\ isWorkerDestroyed' = IF listening /\ message.type = "error" /\ ~hasEntry(message)
                            THEN TRUE ELSE isWorkerDestroyed
    /\ replied' = IF /\ message.type \in ReplyTypes
                     /\ message.queryKey \in MintedKeys
                     /\ \A i \in 1..Len(replied) : replied[i] # message.queryKey
                  THEN Append(replied, message.queryKey)
                  ELSE replied
    /\ UNCHANGED <<databasePath, listening, terminated, userCallbacks, proxy, posted>>

\* A message event of the worker is dispatched.  The listener runs only while it
\* is attached (removeEventListener in destroy detaches it).
MessageEvent(message) ==
    /\ TaskMayRun
    /\ IF listening
       THEN /\ processMessageEvent(message)
            /\ received' = Heard(message)
       ELSE /\ NoDispatch
            /\ UNCHANGED <<calls, microtasks, queriesInProgress>>
    /\ replied' = IF /\ message.type \in ReplyTypes
                     /\ message.queryKey \in MintedKeys
                     /\ \A i \in 1..Len(replied) : replied[i] # message.queryKey
                  THEN Append(replied, message.queryKey)
                  ELSE replied
    /\ UNCHANGED <<databasePath, isWorkerDestroyed, listening, terminated, userCallbacks,
                   proxy, posted>>

\* ------------------------------------------ the continuations of the awaits
\* an exec that takes the last result set of the reply
exec_last(message) ==
    IF message.type = "data"
    THEN IF Len(message.data) = 0
         THEN Rejected(TypeError)
         ELSE Resolved([rows |-> message.data[Len(message.data)].rows,
                        columns |-> message.data[Len(message.data)].columns])
    ELSE Resolved(EmptyResult)

\* exec, after `await this.createQuery(...)` resolved with message
exec(message) ==
    IF message.type = "data"
    THEN IF Len(message.data) = 0
         THEN Rejected(TypeError)          \* message.data[0] is undefined
         ELSE Resolved([rows |-> message.data[1].rows,
                        columns |-> message.data[1].columns])
    ELSE Resolved(EmptyResult)

\* data[resultIndex] = result: an index past the end lengthens the array
ArraySet(data, index, result) ==
    IF index <= Len(data) THEN [data EXCEPT ![index] = result] ELSE Append(data, result)

RECURSIVE forEach(_, _, _)
forEach(results, resultIndex, data) ==
    IF resultIndex > Len(results) THEN data
    ELSE forEach(results, resultIndex + 1, ArraySet(data, resultIndex, results[resultIndex]))

\* an execBatch whose result array is not pre-filled
execBatch_unfilled(statements, message) ==
    IF message.type = "data"
    THEN Resolved(Arr(forEach(message.data, 1, <<>>)))
    ELSE Resolved(Arr(<<>>))

\* execBatch, after `await this.createQuery(...)` resolved with message
execBatch(statements, message) ==
    LET filled == [i \in 1..Len(statements) |-> EmptyResult] IN
    IF message.type = "data"
    THEN Resolved(Arr(forEach(message.data, 1, filled)))
    ELSE Resolved(Arr(filled))

\* a getDatabaseInfo that does not check the kind of the reply
databaseInfo_unchecked(message) ==
    IF message.type = "info" THEN Resolved(message.info) ELSE Resolved(Undefined)

\* getDatabaseInfo, after `await this.createQuery(...)` resolved with message
databaseInfo(message) ==
    IF message.type = "info" THEN Resolved(message.info) ELSE Rejected(InfoError)

\* the part of an operation after its `await this.createQuery(...)`, when the
\* awaitable resolved with message
afterAwait(c, message) ==
    LET op == calls[c].op
        Done(result) == calls' = [calls EXCEPT ![c].pc = "done", ![c].result = result]
    IN
    CASE op = "sql" ->
            /\ Done(exec(message))
            /\ UNCHANGED <<isWorkerDestroyed, listening, terminated, queriesInProgress,
                           userCallbacks, proxy>>
      [] op \in {"transaction", "batch"} ->
            /\ Done(execBatch(calls[c].arg.items, message))
            /\ UNCHANGED <<isWorkerDestroyed, listening, terminated, queriesInProgress,
                           userCallbacks, proxy>>
      [] op = "createCallbackFunction" ->
            /\ userCallbacks' = MapSet(userCallbacks, calls[c].arg.name, c)
            /\ Done(Resolved(Undefined))
            /\ UNCHANGED <<isWorkerDestroyed, listening, terminated, queriesInProgress,
                           proxy>>
      [] op = "createScalarFunction" ->
            /\ proxy' = MapSet(proxy, calls[c].arg.name, c)
            /\ Done(Resolved(Undefined))
            /\ UNCHANGED <<isWorkerDestroyed, listening, terminated, queriesInProgress,
                           userCallbacks>>
      [] op = "getDatabaseInfo" ->
            /\ Done(databaseInfo(message))
            /\ UNCHANGED <<isWorkerDestroyed, listening, terminated, queriesInProgress,
                           userCallbacks, proxy>>
      [] op = "overwriteDatabaseFile" ->
            /\ Done(Resolved(Undefined))
            /\ UNCHANGED <<isWorkerDestroyed, listening, terminated, queriesInProgress,
                           userCallbacks, proxy>>
      [] op = "destroy" ->
            /\ listening' = FALSE
            /\ queriesInProgress' = EmptyMap
            /\ userCallbacks' = EmptyMap
            /\ terminated' = TRUE
            /\ isWorkerDestroyed' = TRUE
            /\ Done(Resolved(Undefined))
            /\ UNCHANGED proxy

\* a destroy that tears the client down whether or not the worker acknowledged
\* the request (the teardown in a finally block)
Continue_finally(c) ==
    /\ microtasks # <<>>
    /\ c = Head(microtasks)
    /\ microtasks' = Tail(microtasks)
    /\ IF calls[c].awaitable.state = "rejected"
       THEN /\ calls' = [calls EXCEPT ![c].pc = "done",
                                      ![c].result = Rejected(calls[c].awaitable.value)]
            /\ IF calls[c].op = "destroy"
               THEN /\ listening' = FALSE
                    /\ queriesInProgress' = EmptyMap
                    /\ userCallbacks' = EmptyMap
                    /\ terminated' = TRUE
                    /\ isWorkerDestroyed' = TRUE
                    /\ UNCHANGED proxy
               ELSE UNCHANGED <<isWorkerDestroyed, listening, terminated,
                                queriesInProgress, userCallbacks, proxy>>
       ELSE afterAwait(c, calls[c].awaitable.value)
    /\ NoDispatch
    /\ UNCHANGED <<databasePath, posted, replied>>

\* The first microtask runs: the operation that awaited the settled awaitable
\* goes on, or is rejected with the error the awaitable was rejected with.
Continue(c) ==
    /\ microtasks # <<>>
    /\ c = Head(microtasks)
    /\ microtasks' = Tail(microtasks)
    /\ IF calls[c].awaitable.state = "rejected"
       THEN /\ calls' = [calls EXCEPT ![c].pc = "done",
                                      ![c].result = Rejected(calls[c].awaitable.value)]
            /\ UNCHANGED <<isWorkerDestroyed, listening, terminated, queriesInProgress,
                           userCallbacks, proxy>>
       ELSE afterAwait(c, calls[c].awaitable.value)
    /\ NoDispatch
    /\ UNCHANGED <<databasePath, posted, replied>>

\* ------------------------------------------------------------ specification
Next ==
    \/ sql
    \/ \E n \in 0..MaxStatements : transaction(Statements(n))
    \/ \E n \in 0..MaxStatements : batch(Statements(n))
    \/ \E funcName \in FuncNames : createCallbackFunction(funcName)
    \/ \E funcName \in FuncNames : createScalarFunction(funcName)
    \/ getDatabaseInfo
    \/ getDatabaseFile
    \/ \E isBlob \in BOOLEAN : overwriteDatabaseFile(isBlob)
    \/ destroy
    \/ \E c \in CallIds : arrayBufferRead(c)
    \/ \E c \in CallIds, found \in BOOLEAN : opfsSettles(c, found)
    \/ \E k \in ReplyKeys : MessageEvent(Success(k))
    \/ \E k \in ReplyKeys, m \in 0..MaxResults : MessageEvent(Data(k, m))
    \/ \E k \in ReplyKeys, e \in WorkerErrors : MessageEvent(Error(k, e))
    \/ \E k \in ReplyKeys, i \in Infos : MessageEvent(InfoReply(k, i))
    \/ \E name \in FuncNames, args \in CallbackArgs : MessageEvent(Callback(name, args))
    \/ \E c \in CallIds : Continue(c)

Spec == Init /\ [][Next]_vars

\* ==================================================================== claims
\* the calls whose request is in flight: createQuery handed them an awaitable
\* that is not settled yet
InFlight == {c \in CallIds : calls[c].awaitable.state = "pending"}

\* the replies of the worker so far came in the order of the requests
RepliesInOrder == \A i \in 1..Len(replied) : replied[i] = i

\* C1: whatever the order in which the replies arrive, a reply settles exactly
\* the awaitable that createQuery registered under the reply's queryKey: a step
\* that settles the awaitable of a request is the dispatch of a reply that
\* carries the key stamped on that request, it settles no other awaitable, and
\* a reply whose key has a pending entry settles the request stamped with it.
C1_RepliesRoutedByKey ==
    [][/\ \A c \in InFlight :
             calls'[c].awaitable.state # "pending"
               => /\ received'.type \in ReplyTypes
                  /\ received'.key = calls[c].key
                  /\ \A d \in InFlight \ {c} : calls'[d].awaitable = calls[d].awaitable
       /\ (received'.type \in ReplyTypes /\ received'.key # NoKey)
             => \E c \in InFlight :
                    /\ calls[c].key = received'.key
                    /\ calls'[c].awaitable.state # "pending"
                    /\ received'.key \notin DOMAIN queriesInProgress']_vars

\* C1 witness: two requests were in flight together, the second was answered
\* first, and each awaitable was settled by its own reply
C1_Witness ==
    /\ Len(calls) = 2
    /\ replied = <<2, 1>>
    /\ calls[1].awaitable.state = "rejected"
    /\ calls[2].awaitable.state = "resolved"
    /\ calls[2].awaitable.value.queryKey = calls[2].key

\* the operations that dispatch a request through createQuery
DispatchingOps == PublicOps \ {"getDatabaseFile"}

\* call c reaches createQuery in this step
ReachesCreateQuery(c) ==
    /\ calls'[c].op \in DispatchingOps
    /\ calls'[c].pc # "reading"
    /\ \/ c \notin CallIds
       \/ calls[c].pc = "reading"

\* C2: once isWorkerDestroyed is true nothing is posted to the worker any more
\* and no pending entry is registered: every dispatching operation that reaches
\* createQuery is rejected there with the 'destroyed' error.
C2_NoDispatchAfterDestroy ==
    [][isWorkerDestroyed
         => /\ posted' = posted
            /\ queriesInProgress' = queriesInProgress
            /\ \A c \in 1..Len(calls') :
                   ReachesCreateQuery(c)
                     => /\ calls'[c].pc = "done"
                        /\ calls'[c].awaitable.state = "none"
                        /\ calls'[c].result = Rejected(DestroyedError)]_vars

\* C2 witness: destroy() resolved and a later sql call failed at the guard
C2_Witness ==
    /\ isWorkerDestroyed
    /\ Len(calls) = 2
    /\ calls[1].op = "destroy" /\ calls[1].result = Resolved(Undefined)
    /\ calls[2].op = "sql" /\ calls[2].result = Rejected(DestroyedError)
    /\ Len(posted) = 2

\* C3: destruction leaves no dangling resolver: with a worker that answers the
\* requests in order, the client is never destroyed while an awaitable that
\* createQuery handed out is unsettled.
C3_NoDanglingResolver ==
    (isWorkerDestroyed /\ RepliesInOrder) => InFlight = {}

Max(a, b) == IF a >= b THEN a ELSE b

\* the calls of `ops` that went on after their awaitable resolved
Completed(ops) ==
    {c \in CallIds : /\ calls[c].op \in ops
                     /\ calls[c].pc = "done"
                     /\ calls[c].awaitable.state = "resolved"}

\* the result sets a reply carries
ResultSetsOf(message) == IF message.type = "data" THEN message.data ELSE <<>>

\* C4 as claimed: whatever the number of result sets of a non-error reply,
\* execBatch resolves to an array of exactly as many positions as statements,
\* position i holding the i-th result set, or the empty one if there is none.
C4_BatchLengthIsStatements ==
    \A c \in Completed({"transaction", "batch"}) :
        LET n == Len(calls[c].arg.items)
            sets == ResultSetsOf(calls[c].awaitable.value)
            out == calls[c].result
        IN /\ out.state = "resolved"
           /\ Len(out.value.items) = n
           /\ \A i \in 1..n :
                  out.value.items[i] = IF i <= Len(sets) THEN sets[i] ELSE EmptyResult

\* C4 amended: for n statements and a non-error reply of m result sets (m = 0
\* for a reply that is not a data reply) execBatch resolves to an array of
\* max(n, m) positions, so of n positions whenever m <= n; position i holds the
\* i-th result set when i <= m and the empty result set otherwise.
C4_BatchLengthIsMax ==
    \A c \in Completed({"transaction", "batch"}) :
        LET n == Len(calls[c].arg.items)
            sets == ResultSetsOf(calls[c].awaitable.value)
            out == calls[c].result
        IN /\ out.state = "resolved"
           /\ Len(out.value.items) = Max(n, Len(sets))
           /\ Len(sets) <= n => Len(out.value.items) = n
           /\ \A i \in 1..Len(out.value.items) :
                  out.value.items[i] = IF i <= Len(sets) THEN sets[i] ELSE EmptyResult

\* C4 witness: a batch of one statement was answered by a data reply with no
\* result set and resolved to one empty result set
C4_Witness ==
    \E c \in Completed({"transaction", "batch"}) :
        /\ Len(calls[c].arg.items) = 1
        /\ calls[c].awaitable.value.type = "data"
        /\ Len(calls[c].awaitable.value.data) = 0
        /\ calls[c].result = Resolved(Arr(<<EmptyResult>>))

\* C5: every public operation called on a destroyed client fails with the
\* 'destroyed' error.
C5_EveryOperationGuarded ==
    \A c \in CallIds :
        (calls[c].afterDestroy /\ calls[c].pc = "done")
          => calls[c].result = Rejected(DestroyedError)

\* the calls of createCallbackFunction, and those whose 'function' request got
\* a non-error reply
Registrations == {c \in CallIds : calls[c].op = "createCallbackFunction"}

Acknowledged(c) ==
    /\ calls[c].awaitable.state = "resolved"
    /\ calls[c].awaitable.value.type # "error"

\* C6 as claimed: name is in userCallbacks only after a non-error reply to a
\* 'function' request for it; while the request of a registration is pending a
\* notification for its name invokes nothing; after an error reply, or once
\* the client is destroyed, the registration has no entry in userCallbacks.
C6_PendingInvokesNothing ==
    /\ \A name \in DOMAIN userCallbacks :
           \E c \in Registrations : calls[c].arg.name = name /\ Acknowledged(c)
    /\ \A c \in Registrations :
           /\ (calls[c].awaitable.state = "pending" /\ invoked # Undefined)
                => calls[invoked.func].arg.name # calls[c].arg.name
           /\ (calls[c].awaitable.state = "rejected" \/ isWorkerDestroyed)
                => \A name \in DOMAIN userCallbacks : userCallbacks[name] # c

\* C6 amended: createCallbackFunction(name, f) records f under name only after
\* a non-error reply to its own 'function' request.  While the request is
\* pending a notification for name never invokes f: it invokes nothing, or the
\* handler that an earlier acknowledged registration of name left in the map.
\* After an error reply, or when the client is destroyed before the reply, f is
\* never recorded.
C6_HandlerOnlyAfterAcknowledgement ==
    /\ \A name \in DOMAIN userCallbacks :
           LET c == userCallbacks[name] IN
           c \in Registrations /\ calls[c].arg.name = name /\ Acknowledged(c)
    /\ invoked # Undefined
         => invoked.func \in Registrations /\ Acknowledged(invoked.func)
    /\ \A c \in Registrations :
           /\ (calls[c].awaitable.state = "pending" /\ invoked # Undefined)
                => /\ invoked.func # c
                   /\ calls[invoked.func].arg.name = calls[c].arg.name
                        => calls[invoked.func].awaitable.state = "resolved"
           /\ ~Acknowledged(c)
                => \A name \in DOMAIN userCallbacks : userCallbacks[name] # c

\* C6 witness: a first registration of a name was rejected and left no handler;
\* a second one was acknowledged, and a notification then invoked its handler
C6_Witness ==
    /\ Len(calls) = 2
    /\ calls[1].op = "createCallbackFunction" /\ calls[1].result.state = "rejected"
    /\ calls[2].op = "createCallbackFunction" /\ calls[2].arg.name = calls[1].arg.name
    /\ userCallbacks = MapSet(EmptyMap, calls[2].arg.name, 2)
    /\ invoked = [func |-> 2, args |-> Arr(<<"x">>)]

\* C7: an 'error' reply with no key, or with a key that matches no entry, is
\* thrown by processMessageEvent; an unmatched 'success', 'data' or 'info'
\* reply throws nothing; neither invokes a continuation or a handler, nor
\* changes the registry.
C7_StrayReplies ==
    [][(received'.type \in ReplyTypes /\ received'.key = NoKey)
         => /\ thrown' = IF received'.type = "error" THEN received'.error ELSE Undefined
            /\ invoked' = Undefined
            /\ UNCHANGED <<calls, microtasks, queriesInProgress, userCallbacks>>]_vars

\* C7 witness: an error reply that matched no entry was thrown while a request
\* was pending, and the pending request stayed pending
C7_Witness ==
    /\ received.type = "error" /\ received.key = NoKey
    /\ received.error = WorkerError("e2")
    /\ thrown = WorkerError("e2")
    /\ InFlight # {}
    /\ \A c \in InFlight : calls[c].key \in DOMAIN queriesInProgress

\* C8: getDatabaseInfo resolves to the info payload of an 'info' reply; a
\* 'success' or 'data' reply makes it fail with the 'valid information' error,
\* which no worker-reported error equals; an 'error' reply makes it fail with
\* the worker-reported error.
C8_DatabaseInfo ==
    \A c \in CallIds :
        (calls[c].op = "getDatabaseInfo" /\ calls[c].pc = "done"
            /\ calls[c].awaitable.state # "none")
          => LET a == calls[c].awaitable IN
             IF a.state = "rejected"
             THEN /\ calls[c].result = Rejected(a.value)
                  /\ a.value \in WorkerErrors
                  /\ a.value # InfoError
             ELSE IF a.value.type = "info"
                  THEN calls[c].result = Resolved(a.value.info)
                  ELSE /\ a.value.type \in {"success", "data"}
                       /\ calls[c].result = Rejected(InfoError)

\* C8 witness: getDatabaseInfo resolved to the payload of an info reply
C8_Witness ==
    \E c \in Completed({"getDatabaseInfo"}) :
        /\ calls[c].awaitable.value = InfoReply(calls[c].key, Info("i2"))
        /\ calls[c].result = Resolved(Info("i2"))

\* C9 as claimed: exec resolves to the first result set of a 'data' reply and
\* to the empty result set for a 'success' or 'info' reply, and never fails
\* on a non-error reply.
C9_ExecNeverFails ==
    \A c \in Completed({"sql"}) :
        LET message == calls[c].awaitable.value IN
        /\ calls[c].result.state = "resolved"
        /\ (message.type = "data" /\ Len(message.data) > 0)
             => calls[c].result.value = [rows |-> message.data[1].rows,
                                         columns |-> message.data[1].columns]
        /\ message.type # "data" => calls[c].result.value = EmptyResult

\* C9 amended: exec resolves to the rows and columns of the first result set of
\* a 'data' reply that carries at least one result set, and to the empty
\* result set for a 'success' or 'info' reply; on a 'data' reply that carries
\* no result set it fails with a TypeError; it fails on no other non-error
\* reply.
C9_ExecFirstResultSet ==
    \A c \in Completed({"sql"}) :
        LET message == calls[c].awaitable.value IN
        IF message.type = "data"
        THEN IF Len(message.data) > 0
             THEN calls[c].result = Resolved([rows |-> message.data[1].rows,
                                              columns |-> message.data[1].columns])
             ELSE calls[c].result = Rejected(TypeError)
        ELSE calls[c].result = Resolved(EmptyResult)

\* C9 witness: exec resolved to the first of the two result sets of a reply
C9_Witness ==
    \E c \in Completed({"sql"}) :
        /\ calls[c].awaitable.value = Data(calls[c].key, 2)
        /\ calls[c].result = Resolved(ResultSet(1))

\* the number of messages of `messages` stamped with key k
PostedWith(messages, k) ==
    Cardinality({i \in 1..Len(messages) : messages[i].queryKey = k})

\* C10: an 'error' reply to a pending request rejects the awaitable of that
\* request, and of no other, with the error value of the message; nothing is
\* posted in that step or later for the request, whose operation fails with
\* the same error value: one message was posted for it, and it stays so.
C10_ErrorRejectsVerbatim ==
    [][/\ (received'.type = "error" /\ received'.key # NoKey)
            => \E c \in InFlight :
                   /\ calls[c].key = received'.key
                   /\ calls'[c].awaitable = Rejected(received'.error)
                   /\ \A d \in CallIds \ {c} : calls'[d] = calls[d]
                   /\ posted' = posted
       /\ \A c \in CallIds :
              calls[c].awaitable.state = "rejected"
                => /\ calls'[c].awaitable = calls[c].awaitable
                   /\ PostedWith(posted', calls[c].key) = 1
                   /\ calls'[c].pc = "done"
                        => calls'[c].result = Rejected(calls[c].awaitable.value)]_vars

\* C10 witness: a request was rejected with the error of the worker's reply
\* and its operation failed with that error, after one posted message
C10_Witness ==
    \E c \in CallIds :
        /\ calls[c].awaitable = Rejected(WorkerError("e2"))
        /\ calls[c].result = Rejected(WorkerError("e2"))
        /\ PostedWith(posted, calls[c].key) = 1

\* C11: a 'callback' notification that names a function with no entry in
\* userCallbacks (never registered, or registration still pending) throws
\* nothing and invokes nothing; one that names a registered function invokes
\* the handler recorded under the name, once, with the arguments of the message
\* (none if the message carries none); either way queriesInProgress,
\* userCallbacks, the awaitables and the posted messages are left as they were.
C11_CallbackNotifications ==
    [][received'.type = "callback"
         => /\ thrown' = Undefined
            /\ UNCHANGED <<queriesInProgress, userCallbacks, calls, microtasks, posted>>
            /\ invoked' = IF received'.name \in DOMAIN userCallbacks
                          THEN [func |-> userCallbacks[received'.name],
                                args |-> IF received'.args = Undefined THEN Arr(<<>>)
                                         ELSE received'.args]
                          ELSE Undefined]_vars

\* C11 witness: with a handler registered under one name and the registration
\* of another name still pending, a notification for the pending name arrived
\* and invoked nothing
C11_Witness ==
    /\ received.type = "callback"
    /\ received.name \notin DOMAIN userCallbacks
    /\ userCallbacks # EmptyMap
    /\ \E c \in Registrations \cap InFlight :
           /\ calls[c].arg.name = received.name
           /\ calls[c].key \in DOMAIN queriesInProgress
    /\ invoked = Undefined
    /\ thrown = Undefined

\* the number of messages of `messages` of the given type
PostedOfType(messages, type) ==
    Cardinality({i \in 1..Len(messages) : messages[i].type = type})

\* C12: over the life of one client the 'destroy' request is posted exactly
\* once, whatever the interleaving of destroy() calls with each other and with
\* the acknowledgement: never more than one 'destroy' message is posted, and
\* one has been posted when the client is destroyed.
C12_DestroyPostedOnce ==
    /\ PostedOfType(posted, "destroy") <= 1
    /\ isWorkerDestroyed => PostedOfType(posted, "destroy") = 1

\* the client is torn down: the listener is detached, both maps are empty and
\* the worker is terminated
TornDown ==
    /\ ~listening
    /\ queriesInProgress = EmptyMap
    /\ userCallbacks = EmptyMap
    /\ terminated

\* call c hands a request to createQuery in this step and createQuery submits
\* it: one message stamped with a new key is posted and an entry is registered
\* under that key
Submitted(c) ==
    /\ Len(posted') = Len(posted) + 1
    /\ SubSeq(posted', 1, Len(posted)) = posted
    /\ posted'[Len(posted')].queryKey = calls'[c].key
    /\ calls'[c].key \notin DOMAIN queriesInProgress
    /\ queriesInProgress' = MapSet(queriesInProgress, calls'[c].key, c)
    /\ calls'[c].awaitable = Pending

\* C13: the teardown of destroy() happens only in the continuation of a
\* destroy() call whose 'destroy' request was acknowledged, and all of it in
\* that one step: any step that detaches the listener, terminates the worker or
\* sets isWorkerDestroyed is such a continuation and leaves the client torn
\* down with the flag set.  Hence whenever isWorkerDestroyed is true the
\* client is torn down, and a request that reaches createQuery before that
\* step, even after destroy() was called, is submitted to the transport.
C13_TeardownAfterAcknowledgement ==
    [][/\ (\/ isWorkerDestroyed' # isWorkerDestroyed
            \/ listening' # listening
            \/ terminated' # terminated)
          => /\ \E c \in CallIds :
                    /\ calls[c].op = "destroy"
                    /\ calls[c].pc = "awaiting"
                    /\ calls[c].awaitable.state = "resolved"
                    /\ calls'[c].pc = "done"
             /\ ~isWorkerDestroyed
             /\ isWorkerDestroyed'
       /\ isWorkerDestroyed' => TornDown'
       /\ ~isWorkerDestroyed
          => \A c \in 1..Len(calls') : ReachesCreateQuery(c) => Submitted(c)]_vars

\* C13 witness: a request made after destroy() was called and before its
\* acknowledgement was submitted to the transport, and the teardown then
\* happened in the continuation of destroy()
C13_Witness ==
    /\ Len(calls) = 2
    /\ calls[1].op = "destroy" /\ calls[1].result = Resolved(Undefined)
    /\ calls[2].op = "getDatabaseInfo" /\ calls[2].key = 2
    /\ posted[3].type = "getinfo" /\ posted[3].queryKey = 2
    /\ isWorkerDestroyed
    /\ TornDown

\* C14: destruction is a barrier: from the step in which destroy() clears the
\* maps on, queriesInProgress and userCallbacks are empty and stay empty, and
\* the client stays destroyed, whatever calls, continuations and late replies
\* follow.
C14_DestructionIsBarrier ==
    [][/\ isWorkerDestroyed'
          => /\ queriesInProgress' = EmptyMap
             /\ userCallbacks' = EmptyMap
       /\ isWorkerDestroyed
          => /\ isWorkerDestroyed'
             /\ queriesInProgress = EmptyMap
             /\ userCallbacks = EmptyMap]_vars

\* C14 witness: a createCallbackFunction request was in flight when destroy()
\* cleared the maps, its reply arrived after the acknowledgement of destroy,
\* and both maps are empty
C14_Witness ==
    /\ isWorkerDestroyed
    /\ Len(calls) = 2
    /\ calls[1].op = "createCallbackFunction" /\ calls[1].awaitable = Pending
    /\ calls[2].op = "destroy" /\ calls[2].pc = "done"
    /\ replied = <<2, 1>>
    /\ queriesInProgress = EmptyMap
    /\ userCallbacks = EmptyMap

\* C15: isWorkerDestroyed starts false and changes only from false to true,
\* and only in a step of a destroy() call: the step that changes it completes
\* a destroy() call, is not the handling of an inbound message, and is a step
\* of no other call.
C15_LifecycleOneWay ==
    /\ isWorkerDestroyed = FALSE
    /\ [][isWorkerDestroyed' # isWorkerDestroyed
            => /\ isWorkerDestroyed = FALSE
               /\ isWorkerDestroyed' = TRUE
               /\ received' = NoMessage
               /\ Len(calls') = Len(calls)
               /\ \E c \in CallIds :
                      /\ calls[c].op = "destroy"
                      /\ calls[c].pc # "done"
                      /\ calls'[c].pc = "done"
                      /\ \A d \in CallIds \ {c} : calls'[d] = calls[d]]_vars

\* C15 witness: an operation failed on an error reply of the worker, which
\* left the client active, and a later destroy() then set the flag
C15_Witness ==
    /\ Len(calls) = 2
    /\ calls[1].op = "sql" /\ calls[1].result = Rejected(WorkerError("e1"))
    /\ calls[2].op = "destroy" /\ calls[2].result = Resolved(Undefined)
    /\ ~calls[2].afterDestroy
    /\ isWorkerDestroyed

\* the requests createQuery has dispatched: every posted message but the
\* constructor's config message
Dispatched == Len(posted) - 1

\* the requests whose continuation a matching reply has invoked
Settled == Cardinality({c \in CallIds : calls[c].awaitable.state \in {"resolved", "rejected"}})

RegistrySize == Cardinality(DOMAIN queriesInProgress)

\* C16: the size of queriesInProgress is the number of requests dispatched by
\* createQuery minus the number settled by a matching reply minus the number
\* removed by destroy's clear.  It is 0 at the start; every step changes it by
\* the requests dispatched in the step, less those settled in the step, less
\* the entries the step clears in destroy (all there are, in the step that
\* destroys the client); so on an active client it is dispatched minus
\* settled.  A reply that matches no entry changes none of the three.
C16_RegistrySize ==
    /\ RegistrySize = 0 /\ Dispatched = 0 /\ Settled = 0
    /\ [][LET cleared == IF isWorkerDestroyed' # isWorkerDestroyed
                         THEN RegistrySize ELSE 0
          IN /\ RegistrySize' - RegistrySize
                   = (Dispatched' - Dispatched) - (Settled' - Settled) - cleared
             /\ Dispatched' >= Dispatched
             /\ Settled' >= Settled
             /\ ~isWorkerDestroyed' => RegistrySize' = Dispatched' - Settled'
             /\ (received'.type \in ReplyTypes /\ received'.key = NoKey)
                  => /\ queriesInProgress' = queriesInProgress
                     /\ Dispatched' = Dispatched
                     /\ Settled' = Settled]_vars

\* C16 witness: of two dispatched requests one was settled and one is pending,
\* and a reply that matched no entry has just been handled
C16_Witness ==
    /\ Dispatched = 2
    /\ Settled = 1
    /\ RegistrySize = 1
    /\ received.type \in ReplyTypes
    /\ received.key = NoKey

\* the calls whose awaitable this step settles or settles again
SettledInStep ==
    {c \in CallIds : /\ calls'[c].awaitable # calls[c].awaitable
                     /\ calls'[c].awaitable.state \in {"resolved", "rejected"}}

\* C17: a 'success', 'data', 'error' or 'info' reply whose queryKey matches a
\* pending entry removes that entry in the same step and invokes one of the
\* two continuations of that entry: reject with the error for 'error', resolve
\* with the message otherwise, and of no other entry.  A continuation is
\* invoked only for an entry that is present and pending, so for each request
\* at most one continuation is invoked, at most once: a settled awaitable is
\* never settled again and its key never comes back into the registry,
\* whatever replies with the same key follow.
C17_OneContinuationOnce ==
    [][/\ (received'.type \in ReplyTypes /\ received'.key # NoKey)
          => /\ received'.key \in DOMAIN queriesInProgress
             /\ queriesInProgress' = MapDelete(queriesInProgress, received'.key)
             /\ LET c == queriesInProgress[received'.key] IN
                /\ SettledInStep = {c}
                /\ calls[c].key = received'.key
                /\ calls[c].awaitable = Pending
                /\ IF received'.type = "error"
                   THEN calls'[c].awaitable = Rejected(received'.error)
                   ELSE /\ calls'[c].awaitable.state = "resolved"
                        /\ calls'[c].awaitable.value.type = received'.type
                        /\ calls'[c].awaitable.value.queryKey = received'.key
                /\ microtasks' = Append(microtasks, c)
       /\ \A c \in SettledInStep :
              /\ calls[c].awaitable = Pending
              /\ received'.type \in ReplyTypes
              /\ received'.key = calls[c].key
       /\ \A c \in CallIds :
              calls[c].awaitable.state \in {"resolved", "rejected"}
                => calls[c].key \notin DOMAIN queriesInProgress']_vars

\* C17 witness: with two requests pending, an info reply to the second one
\* resolved it and removed its entry, and the entry of the first one stayed
C17_Witness ==
    /\ Len(calls) = 2
    /\ received.type = "info" /\ received.key = 2
    /\ calls[2].awaitable = Resolved(InfoReply(2, Info("i1")))
    /\ calls[1].awaitable = Pending
    /\ DOMAIN queriesInProgress = {1}
    /\ microtasks = <<2>>

\* the destroy() calls whose 'destroy' request the worker answered with an
\* 'error' reply
RefusedDestroys ==
    {c \in CallIds : calls[c].op = "destroy" /\ calls[c].awaitable.state = "rejected"}

\* C18: an 'error' reply to the 'destroy' request removes the entry of that
\* request and nothing else; destroy() then fails with the error of the reply
\* and tears nothing down: listener, queriesInProgress, userCallbacks, worker
\* and isWorkerDestroyed are as they were.  As long as no destroy() call was
\* acknowledged the client is active, and operations called after the failed
\* destroy() are submitted to the transport.
C18_RefusedDestroyTearsNothingDown ==
    [][/\ \A c \in CallIds :
              (calls[c].op = "destroy" /\ calls[c].awaitable = Pending
                 /\ calls'[c].awaitable.state = "rejected")
                => /\ calls'[c].awaitable = Rejected(received'.error)
                   /\ queriesInProgress' = MapDelete(queriesInProgress, calls[c].key)
                   /\ UNCHANGED <<listening, terminated, isWorkerDestroyed,
                                  userCallbacks, posted>>
       /\ \A c \in RefusedDestroys :
              (calls[c].pc = "awaiting" /\ calls'[c].pc = "done")
                => /\ calls'[c].result = Rejected(calls[c].awaitable.value)
                   /\ UNCHANGED <<listening, terminated, isWorkerDestroyed,
                                  queriesInProgress, userCallbacks, posted>>
       /\ (\A c \in 1..Len(calls') :
               calls'[c].op = "destroy" => calls'[c].awaitable.state # "resolved")
            => listening' /\ ~terminated' /\ ~isWorkerDestroyed'
       /\ (RefusedDestroys # {} /\ ~isWorkerDestroyed)
            => \A d \in 1..Len(calls') : ReachesCreateQuery(d) => Submitted(d)]_vars

\* C18 witness: destroy() failed with the error of the worker's reply, the
\* client is still active, and a query made afterwards was posted and is
\* pending
C18_Witness ==
    /\ Len(calls) = 2
    /\ calls[1].op = "destroy" /\ calls[1].result = Rejected(WorkerError("e1"))
    /\ calls[2].op = "sql" /\ calls[2].awaitable = Pending
    /\ posted[3].type = "query"
    /\ DOMAIN queriesInProgress = {2}
    /\ listening /\ ~terminated /\ ~isWorkerDestroyed
    /\ replied = <<1>>

\* C19: once the client is destroyed no message is handed to the listener:
\* no awaitable is settled and no continuation queued, no user callback is
\* invoked and no error is thrown; a reply that arrives after the teardown
\* changes nothing of the client.
C19_NothingAfterDestroy ==
    [][isWorkerDestroyed
         => /\ received' = NoMessage
            /\ thrown' = Undefined
            /\ invoked' = Undefined
            /\ microtasks = <<>> /\ microtasks' = <<>>
            /\ \A c \in CallIds : calls'[c].awaitable = calls[c].awaitable
            /\ UNCHANGED <<queriesInProgress, userCallbacks, proxy, posted,
                           listening, terminated, isWorkerDestroyed>>
            /\ replied' # replied => calls' = calls]_vars

\* C19 witness: a query was pending when the client was destroyed; its reply
\* arrived after the teardown and was dropped: the query is still pending and
\* nothing was thrown
C19_Witness ==
    /\ isWorkerDestroyed
    /\ Len(calls) = 2
    /\ calls[1].op = "sql" /\ calls[1].awaitable = Pending /\ calls[1].result = Pending
    /\ calls[2].op = "destroy" /\ calls[2].result = Resolved(Undefined)
    /\ replied = <<2, 1>>
    /\ received = NoMessage
    /\ thrown = Undefined /\ invoked = Undefined

\* C20: createQuery posts the request and registers the entry in one step, so
\* no message is handled between the two: the step that posts a keyed request
\* leaves its entry in queriesInProgress, on a client that has not begun
\* teardown every key that was minted and not answered yet has its entry, and
\* the first reply to a keyed request that the listener handles finds the
\* entry of that key, settles the request and throws nothing.
C20_FirstReplyFindsEntry ==
    [][/\ Len(posted') > Len(posted)
          => /\ Len(posted') = Len(posted) + 1
             /\ posted'[Len(posted')].queryKey \in (DOMAIN queriesInProgress')
                                                   \ (DOMAIN queriesInProgress)
       /\ listening'
          => (1..(Len(posted') - 1)) \ {replied'[i] : i \in 1..Len(replied')}
                \subseteq DOMAIN queriesInProgress'
       /\ (replied' # replied /\ listening)
          => LET k == replied'[Len(replied')] IN
             /\ k \in DOMAIN queriesInProgress
             /\ received'.type \in ReplyTypes
             /\ received'.key = k
             /\ thrown' = Undefined
             /\ calls'[queriesInProgress[k]].awaitable.state \in {"resolved", "rejected"}]_vars

\* C20 witness: the first reply to a batch request, a data reply, was handled
\* at once after the request was posted; it found the entry and settled the
\* request
C20_Witness ==
    /\ Len(calls) = 1
    /\ calls[1].op = "batch"
    /\ received.type = "data" /\ received.key = 1
    /\ replied = <<1>>
    /\ calls[1].awaitable.state = "resolved"
    /\ microtasks = <<1>>
    /\ thrown = Undefined

====
